---- MODULE Spec2Model ----
(***************************************************************************)
(* chang.py: git changelog generator.  One run reads a list of repository  *)
(* URLs, clones or fetches each repository under ._repos/, scrapes the     *)
(* one-line commit subjects, filters them and dumps the changelog.         *)
(*                                                                         *)
(* Python strings are modelled as sequences of one-character strings so    *)
(* that strip, split, replace, join and the pattern search are computed    *)
(* as the interpreter computes them.  None is a value of its own, told     *)
(* apart from the empty string and the empty list.                         *)
(***************************************************************************)
EXTENDS Integers, Sequences, FiniteSets, TLC

VARIABLES
    args,         \* the parsed command line of the current run
    fs,           \* the entries under the working directory: path -> kind
    repo_objs,    \* the list of Repo objects
    idx,          \* position of the main loop in repo_objs
    pc,           \* where the script is: start, sync, scrape, dump, exited
    cwd,          \* the current directory of the process
    exit_status,  \* exit status once pc = "exited"
    printed,      \* failure messages and tracebacks written so far
    header,       \* the header lines dump_changelog wrote
    out,          \* the commit lines dump_changelog wrote
    trace,        \* file operations and commands of the call that ran last
    touched,      \* paths this run created, removed or ran git on
    scraped,      \* positions of repo_objs scrape_commits was called on
    failed,       \* positions of repo_objs whose clone or fetch failed
    broken,       \* directories made for a clone that then failed
    run,          \* number of the current run
    m_s, m_match, m_excl, m_ret   \* one call of matches and what it returned

vars == <<args, fs, repo_objs, idx, pc, cwd, exit_status, printed, header, out,
          trace, touched, scraped, failed, broken, run,
          m_s, m_match, m_excl, m_ret>>

mainVars == <<args, fs, repo_objs, idx, pc, cwd, exit_status, printed, header, out,
              trace, touched, scraped, failed, broken, run>>

matchVars == <<m_s, m_match, m_excl, m_ret>>

\* None where a str is expected, and None where a list of str is expected
NoneStr == <<"None">>
NoneList == <<NoneStr>>

\* Python truth value of an optional str: None and "" are false
TruthyStr(x) == x # NoneStr /\ x # <<>>

\* Python truth value of an optional list: None and [] are false
Truthy(x) == x # NoneList /\ x # <<>>

\* ------------------------------------------------------------------------
\* Bounds of the model
\* ------------------------------------------------------------------------
\* lines of the input file
MaxRepos == 2
\* consecutive runs of the program over the same working directory
MaxRuns == 2
\* patterns per --match / --exclude list
MaxPats == 2

\* ------------------------------------------------------------------------
\* Python string primitives
\* ------------------------------------------------------------------------
WS == {" ", "\n", "\t"}

\* str.lstrip()
RECURSIVE LStrip(_)
LStrip(s) == IF s # <<>> /\ Head(s) \in WS THEN LStrip(Tail(s)) ELSE s

\* str.rstrip()
RECURSIVE RStrip(_)
RStrip(s) ==
    IF s # <<>> /\ s[Len(s)] \in WS THEN RStrip(SubSeq(s, 1, Len(s) - 1)) ELSE s

\* str.strip()
Strip(s) == RStrip(LStrip(s))

\* s.startswith(p)
StartsWith(s, p) == Len(p) <= Len(s) /\ SubSeq(s, 1, Len(p)) = p

\* str.split(sep) for a one-character separator: a list of Len >= 1
RECURSIVE SplitOn(_, _, _)
SplitOn(s, sep, cur) ==
    IF s = <<>> THEN <<cur>>
    ELSE IF Head(s) = sep THEN <<cur>> \o SplitOn(Tail(s), sep, <<>>)
    ELSE SplitOn(Tail(s), sep, Append(cur, Head(s)))

Split(s, sep) == SplitOn(s, sep, <<>>)

\* str.split() without separator: runs of whitespace separate, no empty field
RECURSIVE SplitWS(_, _)
SplitWS(s, cur) ==
    IF s = <<>> THEN (IF cur = <<>> THEN <<>> ELSE <<cur>>)
    ELSE IF Head(s) \in WS
         THEN (IF cur = <<>> THEN <<>> ELSE <<cur>>) \o SplitWS(Tail(s), <<>>)
    ELSE SplitWS(Tail(s), Append(cur, Head(s)))

\* sep.join(list)
RECURSIVE Join(_, _)
Join(sep, l) ==
    IF l = <<>> THEN <<>>
    ELSE IF Len(l) = 1 THEN l[1]
    ELSE l[1] \o sep \o Join(sep, Tail(l))

\* str.replace(old, ""): every non-overlapping occurrence, left to right
RECURSIVE Remove(_, _)
Remove(s, old) ==
    IF s = <<>> THEN <<>>
    ELSE IF StartsWith(s, old) THEN Remove(SubSeq(s, Len(old) + 1, Len(s)), old)
    ELSE <<Head(s)>> \o Remove(Tail(s), old)

\* re.IGNORECASE: case folding of the letters the model uses
Fold(c) == CASE c = "F" -> "f" [] c = "W" -> "w" [] OTHER -> c

FoldStr(s) == [i \in 1..Len(s) |-> Fold(s[i])]

\* Pattern.search(s) for a pattern without metacharacters, compiled with
\* re.IGNORECASE: the pattern occurs somewhere in s, case ignored
Search(pattern, s) ==
    \E i \in 0..(Len(s) - Len(pattern)) :
        FoldStr(SubSeq(s, i + 1, i + Len(pattern))) = FoldStr(pattern)

\* ------------------------------------------------------------------------
\* Program constants and the inputs the model draws from
\* ------------------------------------------------------------------------
WORKDIR == <<".", "_", "r", "e", "p", "o", "s", "/">>
PWD == <<"/", "w">>

\* exit status of sys.exit(11) in clone_or_fetch
SYNC_FAILED == 11

\* os.path.abspath(rel) with the process in directory dir (rel is relative,
\* a trailing slash is dropped)
abspath(dir, rel) ==
    dir \o <<"/">> \o (IF rel # <<>> /\ rel[Len(rel)] = "/"
                       THEN SubSeq(rel, 1, Len(rel) - 1) ELSE rel)

\* lines of the input file, as readlines() returns them
URL_P == <<"h", "/", "p", ".", "g", "i", "t", "\n">>
URL_Q == <<"h", "/", "q", "\n">>
BLANK == <<"\n">>
InputLines == {URL_P, URL_Q, BLANK}

NAME_P == <<"p">>
NAME_Q == <<"q">>
Names == {NAME_P, NAME_Q}

\* lines of `git log --oneline`: "<hash> <subject>"
LOG_FIX == <<"1", " ", " ", "F", "i", "x">>
LOG_WIP == <<"2", " ", "w", "i", "p">>
LOG_BARE == <<"3">>
LogLines == {LOG_FIX, LOG_WIP, LOG_BARE}

\* what a git log may return: nothing, or some of these lines in some order
LogOutputs ==
    {<<>>, <<LOG_BARE>>, <<LOG_FIX, LOG_WIP>>, <<LOG_WIP, LOG_FIX>>,
     <<LOG_FIX, LOG_BARE, LOG_WIP>>}

\* commit subjects matches is called with
Subjects == {<<"F", "i", "x">>, <<"w", "i", "p">>, <<"f", "i", "x", " ", "W", "I", "P">>, <<"x">>}

PAT_FIX == <<"f", "i", "x">>
PAT_WIP == <<"w", "i", "p">>
PAT_I == <<"I">>
Patterns == {PAT_FIX, PAT_WIP, PAT_I}

\* --output: not given, or a file name
OutFiles == {NoneStr, <<"o">>}

TAG_START == <<"v", "1">>
TAG_END == <<"v", "2">>

\* sequences over S of length at most n
SeqUpTo(S, n) == UNION {[1..k -> S] : k \in 0..n}

\* outcomes of a subprocess.run(..., timeout=100, check=True)
GitResults == {"ok", "nonzero", "timeout"}

\* kinds of directory entry a path can name
Kind(f, path) == IF path \in DOMAIN f THEN f[path] ELSE "absent"

\* the filesystem f with path made an entry of kind k ("absent": removed)
SetKind(f, path, k) ==
    IF k = "absent"
    THEN [q \in DOMAIN f \ {path} |-> f[q]]
    ELSE [q \in DOMAIN f \cup {path} |-> IF q = path THEN k ELSE f[q]]

\* one file operation or command: what, on which path, with what result,
\* and for a git log the lines it returned
LogEvent(op, path, res, lines) == [op |-> op, path |-> path, res |-> res, lines |-> lines]

Event(op, path, res) == LogEvent(op, path, res, <<>>)

Message(kind, cmd, path, detail) ==
    [kind |-> kind, cmd |-> cmd, path |-> path, detail |-> detail]

\* ------------------------------------------------------------------------
\* class Repo, and the pure functions of the module
\* ------------------------------------------------------------------------
\* Repo.__init__
Repo(name, url) == [name |-> name, url |-> url, path |-> NoneStr, commits |-> <<>>]

\* check_tag_semantics: TRUE when TagError is raised
check_tag_semantics(start_tag, end_tag) ==
    \/ TruthyStr(start_tag) /\ ~TruthyStr(end_tag)
    \/ TruthyStr(end_tag) /\ ~TruthyStr(start_tag)

\* the loop `for pattern in match_list: if not pattern.search(s): return False`
RECURSIVE MatchLoop(_, _)
MatchLoop(s, l) ==
    IF l = <<>> THEN TRUE
    ELSE IF ~Search(Head(l), s) THEN FALSE
    ELSE MatchLoop(s, Tail(l))

\* the loop `for pattern in excl_list: if pattern.search(s): return False`
RECURSIVE ExclLoop(_, _)
ExclLoop(s, l) ==
    IF l = <<>> THEN TRUE
    ELSE IF Search(Head(l), s) THEN FALSE
    ELSE ExclLoop(s, Tail(l))

\* `elif excl_list:`: the exclusions are skipped when match_list is given
matches_elif(s, match_list, excl_list) ==
    IF Truthy(match_list) THEN MatchLoop(s, match_list)
    ELSE IF Truthy(excl_list) THEN ExclLoop(s, excl_list)
    ELSE TRUE

matches(s, match_list, excl_list) ==
    IF Truthy(match_list) /\ ~MatchLoop(s, match_list) THEN FALSE
    ELSE IF Truthy(excl_list) /\ ~ExclLoop(s, excl_list) THEN FALSE
    ELSE TRUE

\* name of the repository of one stripped input line
repo_name(repo_url) ==
    LET parts == Split(repo_url, "/")
    IN  Remove(parts[Len(parts)], <<".", "g", "i", "t">>)

\* the loop of read_repos_from_file over the lines of the file
RECURSIVE ReadLoop(_, _, _)
ReadLoop(lines, repoq, restrict) ==
    IF lines = <<>> THEN repoq
    ELSE LET repo_url == Strip(Head(lines))
             name == repo_name(repo_url)
         IN  IF repo_url = <<>> THEN ReadLoop(Tail(lines), repoq, restrict)
             ELSE IF Truthy(restrict) /\ ~(\E k \in 1..Len(restrict) : restrict[k] = name)
                  THEN ReadLoop(Tail(lines), repoq, restrict)
             ELSE ReadLoop(Tail(lines), Append(repoq, Repo(name, repo_url)), restrict)

\* the restriction is not looked at
read_repos_from_file_all(srcf, repoq, restrict) == ReadLoop(srcf, repoq, NoneList)

read_repos_from_file(srcf, repoq, restrict) == ReadLoop(srcf, repoq, restrict)

\* pat / excl of the main script: compiled lists, or None for a missing or
\* empty option
compile_list(option) == IF Truthy(option) THEN option ELSE NoneList

\* the loop of scrape_commits over output.split('\n')
RECURSIVE ScrapeLoop(_, _, _, _)
ScrapeLoop(lines, commits, match_list, excl_list) ==
    IF lines = <<>> THEN commits
    ELSE LET fields == SplitWS(Head(lines), <<>>)
             line == Join(<<" ">>, IF fields = <<>> THEN <<>> ELSE Tail(fields))
         IN  IF line # <<>> /\ matches(line, match_list, excl_list)
             THEN ScrapeLoop(Tail(lines), Append(commits, line), match_list, excl_list)
             ELSE ScrapeLoop(Tail(lines), commits, match_list, excl_list)

Reverse(s) == [k \in 1..Len(s) |-> s[Len(s) + 1 - k]]

\* `self.commits.insert(0, line)`: the kept lines end up newest last
scrape_output_insert_front(stdout, match_list, excl_list) ==
    Reverse(ScrapeLoop(Split(Strip(stdout), "\n"), <<>>, match_list, excl_list))

\* the else branch of scrape_commits: the commits kept from the output
scrape_output(stdout, match_list, excl_list) ==
    ScrapeLoop(Split(Strip(stdout), "\n"), <<>>, match_list, excl_list)

\* the text `git log --oneline` writes for a sequence of commit lines
RECURSIVE Stdout(_)
Stdout(lines) ==
    IF lines = <<>> THEN <<>> ELSE Head(lines) \o <<"\n">> \o Stdout(Tail(lines))

\* colorize(s, color): the name is wrapped in the colour code and the reset
colorize(s, color) == [text |-> s, color |-> color]

\* the inner loop of dump_changelog: "[repo] commit" for each commit; the
\* name is coloured green on the terminal and plain in a file
RECURSIVE DumpCommits(_, _, _)
DumpCommits(name, commits, outfile) ==
    IF commits = <<>> THEN <<>>
    ELSE <<[repo |-> IF TruthyStr(outfile) THEN colorize(name, "")
                     ELSE colorize(name, "green"),
            text |-> Head(commits)]>>
         \o DumpCommits(name, Tail(commits), outfile)

\* the outer loop of dump_changelog
RECURSIVE DumpLoop(_, _)
DumpLoop(repos, outfile) ==
    IF repos = <<>> THEN <<>>
    ELSE DumpCommits(Head(repos).name, Head(repos).commits, outfile)
         \o DumpLoop(Tail(repos), outfile)

\* the commit lines dump_changelog prints
dump_lines(repos, outfile) == DumpLoop(repos, outfile)

\* the header of a changelog file: the date, the range when one is given,
\* and the empty line after it; nothing on the terminal
dump_header(outfile, start_tag, end_tag) ==
    IF ~TruthyStr(outfile) THEN <<>>
    ELSE IF TruthyStr(start_tag) \/ TruthyStr(end_tag)
         THEN <<"~~ Changelog generated <date> [<start>, <end>] ~~", "">>
    ELSE <<"~~ Changelog generated <date> ~~", "">>

\* ------------------------------------------------------------------------
\* Repo.clone_or_fetch, step by step
\* ------------------------------------------------------------------------
\* lines 65-66: an entry that exists and is not a directory is removed
\* the entry in the way is left where it is
after_remove_nothing(kind) == kind

after_remove(kind) == IF kind # "absent" /\ kind # "dir" THEN "absent" ELSE kind

\* lines 68-72: fetch when the path exists now, else makedirs and clone
git_cmd(kind) == IF kind # "absent" THEN "git fetch" ELSE "git clone"

\* the file operations and the git command of one call, as events
sync_events(path, kind) ==
    <<Event("clone_or_fetch", path, kind)>>
    \o (IF after_remove(kind) # kind THEN <<Event("remove", path, "")>> ELSE <<>>)
    \o (IF git_cmd(after_remove(kind)) = "git clone"
        THEN <<Event("makedirs", path, "")>> ELSE <<>>)

\* lines 74-87: what a result of subprocess.run leads to.  check=True raises
\* CalledProcessError, which is caught; timeout=100 raises TimeoutExpired,
\* which is not a CalledProcessError and leaves the function uncaught.
\* the except clause prints and falls through, the path is set all the same
sync_handler_falls_through(res) == "set_path"

sync_handler(res) ==
    CASE res = "ok" -> "set_path"
      [] res = "nonzero" -> "sys_exit"
      [] OTHER -> "uncaught"

\* ------------------------------------------------------------------------
\* Repo.scrape_commits, step by step
\* ------------------------------------------------------------------------
\* lines 116-128: the except clause catches CalledProcessError only
scrape_handler(res) ==
    CASE res = "ok" -> "else"
      [] res = "nonzero" -> "print"
      [] OTHER -> "uncaught"

\* lines 114, 137-138: the directory the process is in when the call is left,
\* having been in `inside` during the try statement
\* os.chdir(PWD) in the else clause instead of the finally clause
scrape_finally_in_else(inside, res) == IF res = "ok" THEN PWD ELSE inside

scrape_finally(inside, res) == PWD

\* ------------------------------------------------------------------------
\* State
\* ------------------------------------------------------------------------
SrcFiles == SeqUpTo(InputLines, MaxRepos)

\* the command lines
ArgSets ==
    [srcf : SrcFiles,
     start_tag : {NoneStr, TAG_START},
     end_tag : {NoneStr, TAG_END},
     match : {NoneList, <<PAT_FIX>>},
     exclude : {NoneList, <<PAT_WIP>>},
     restrict : {NoneList, <<>>, <<NAME_P>>},
     clean : BOOLEAN]

\* what may be found under ._repos/ when the first run starts: nothing, or
\* one entry, a file or a directory, with the name of a repository
InitialFilesystems ==
    {SetKind(<<>>, abspath(PWD, WORKDIR \o n), k) :
        n \in Names, k \in {"absent", "file", "dir"}}

pat == compile_list(args.match)
excl == compile_list(args.exclude)

MatchIdle == m_s = <<>> /\ m_match = NoneList /\ m_excl = NoneList /\ m_ret = "idle"

InitRun ==
    /\ repo_objs = <<>>
    /\ idx = 1
    /\ pc = "start"
    /\ cwd = PWD
    /\ exit_status = -1
    /\ printed = <<>>
    /\ header = <<>>
    /\ out = <<>>
    /\ trace = <<>>
    /\ touched = {}
    /\ scraped = {}
    /\ failed = {}

Init ==
    /\ args \in ArgSets
    /\ fs \in InitialFilesystems
    /\ broken = {}
    /\ run = 1
    /\ InitRun
    /\ MatchIdle

\* process exit with the given status
Exit(status) == pc' = "exited" /\ exit_status' = status

\* rmdir(WORKDIR): rmtree of the working directory, then mkdir
rmdir(f, path) ==
    [q \in {r \in DOMAIN f : ~StartsWith(r, path \o <<"/">>)} |-> f[q]]

\* lines 362-377: parse the arguments, read the repository list, compile the
\* patterns, clean the working directory when asked to
Startup ==
    /\ pc = "start"
    /\ repo_objs' = read_repos_from_file(args.srcf, <<>>, args.restrict)
    /\ IF args.clean
       THEN /\ fs' = rmdir(fs, abspath(cwd, WORKDIR))
            /\ trace' = <<Event("rmtree", abspath(cwd, WORKDIR), ""),
                          Event("mkdir", abspath(cwd, WORKDIR), "")>>
            /\ touched' = touched \cup {abspath(cwd, WORKDIR)}
            /\ broken' = {}
       ELSE /\ trace' = <<>>
            /\ UNCHANGED <<fs, touched, broken>>
    /\ pc' = IF repo_objs' = <<>> THEN "dump" ELSE "sync"
    /\ UNCHANGED <<args, idx, cwd, exit_status, printed, header, out, scraped, failed, run>>

\* line 381: repo.clone_or_fetch(WORKDIR) for the repository the loop is at
CloneOrFetch(res) ==
    /\ pc = "sync"
    /\ LET repo == repo_objs[idx]
           path == abspath(cwd, WORKDIR \o repo.name)
           kind == Kind(fs, path)
           cmd == git_cmd(after_remove(kind))
       IN  /\ fs' = SetKind(fs, path, "dir")
           /\ trace' = sync_events(path, kind) \o <<Event(cmd, path, res)>>
           /\ touched' = touched \cup {path}
           /\ failed' = IF res # "ok" THEN failed \cup {idx} ELSE failed
           /\ broken' = IF cmd = "git clone" /\ res # "ok" THEN broken \cup {path}
                        ELSE broken
           /\ CASE sync_handler(res) = "set_path" ->
                     /\ repo_objs' = [repo_objs EXCEPT ![idx].path = path]
                     /\ pc' = "scrape"
                     /\ UNCHANGED <<exit_status, printed>>
                [] sync_handler(res) = "sys_exit" ->
                     /\ printed' = Append(printed, Message("failed", cmd, path, "output"))
                     /\ Exit(SYNC_FAILED)
                     /\ UNCHANGED repo_objs
                [] OTHER ->
                     \* TimeoutExpired leaves the script: traceback, status 1
                     /\ printed' = Append(printed,
                                          Message("traceback", cmd, path, "TimeoutExpired"))
                     /\ Exit(1)
                     /\ UNCHANGED repo_objs
    /\ UNCHANGED <<args, idx, cwd, header, out, scraped, run>>

\* the for statement of line 379 moving to the next repository
NextPc == IF idx + 1 > Len(repo_objs) THEN "dump" ELSE "sync"

\* line 382: repo.scrape_commits(...) for the repository the loop is at
ScrapeCommits(res, lines) ==
    /\ pc = "scrape"
    /\ LET repo == repo_objs[idx]
           reset == [repo_objs EXCEPT ![idx].commits = <<>>]
       IN  IF check_tag_semantics(args.start_tag, args.end_tag)
           THEN \* TagError leaves the script: traceback, status 1
                /\ repo_objs' = reset
                /\ trace' = <<Event("scrape_commits", repo.path, "TagError")>>
                /\ printed' = Append(printed,
                                     Message("traceback", "", repo.path, "TagError"))
                /\ Exit(1)
                /\ UNCHANGED <<cwd, idx, touched>>
           ELSE IF repo.path = NoneStr
           THEN \* os.chdir(None) raises TypeError
                /\ repo_objs' = reset
                /\ trace' = <<Event("scrape_commits", repo.path, "TypeError")>>
                /\ printed' = Append(printed,
                                     Message("traceback", "", repo.path, "TypeError"))
                /\ Exit(1)
                /\ UNCHANGED <<cwd, idx, touched>>
           ELSE /\ trace' = <<Event("scrape_commits", repo.path, ""),
                              LogEvent("git log", repo.path, res, lines)>>
                /\ cwd' = scrape_finally(repo.path, res)
                /\ touched' = touched \cup {repo.path}
                /\ CASE scrape_handler(res) = "else" ->
                          /\ repo_objs' = [repo_objs EXCEPT ![idx].commits =
                                              scrape_output(Stdout(lines), pat, excl)]
                          /\ idx' = idx + 1
                          /\ pc' = NextPc
                          /\ UNCHANGED <<exit_status, printed>>
                     [] scrape_handler(res) = "print" ->
                          /\ repo_objs' = reset
                          /\ printed' = Append(printed,
                                 Message("failed", "git log", repo.path, "output"))
                          /\ idx' = idx + 1
                          /\ pc' = NextPc
                          /\ UNCHANGED exit_status
                     [] OTHER ->
                          /\ repo_objs' = reset
                          /\ printed' = Append(printed,
                                 Message("traceback", "git log", repo.path, "TimeoutExpired"))
                          /\ Exit(1)
                          /\ UNCHANGED idx
    /\ scraped' = scraped \cup {idx}
    /\ UNCHANGED <<args, fs, header, out, failed, broken, run>>

\* line 384: dump_changelog(repo_objs, args.outfile, ...), with --output
\* given or not; then the script ends
DumpChangelog(outfile) ==
    /\ pc = "dump"
    /\ IF check_tag_semantics(args.start_tag, args.end_tag)
       THEN /\ printed' = Append(printed, Message("traceback", "", NoneStr, "TagError"))
            /\ Exit(1)
            /\ UNCHANGED <<header, out>>
       ELSE /\ header' = dump_header(outfile, args.start_tag, args.end_tag)
            /\ out' = dump_lines(repo_objs, outfile)
            /\ Exit(0)
            /\ UNCHANGED printed
    /\ trace' = <<>>
    /\ UNCHANGED <<args, fs, repo_objs, idx, cwd, touched, scraped, failed, broken, run>>

\* the same command line is run again over the same working directory
NextRun ==
    /\ pc = "exited"
    /\ run < MaxRuns
    /\ run' = run + 1
    /\ UNCHANGED args
    /\ repo_objs' = <<>>
    /\ idx' = 1
    /\ pc' = "start"
    /\ cwd' = PWD
    /\ exit_status' = -1
    /\ printed' = <<>>
    /\ header' = <<>>
    /\ out' = <<>>
    /\ trace' = <<>>
    /\ touched' = {}
    /\ scraped' = {}
    /\ failed' = {}
    /\ UNCHANGED <<fs, broken>>

Next ==
    \/ Startup /\ UNCHANGED matchVars
    \/ (\E res \in GitResults : CloneOrFetch(res)) /\ UNCHANGED matchVars
    \/ (\E res \in GitResults, lines \in LogOutputs :
            ScrapeCommits(res, IF res = "ok" THEN lines ELSE <<>>))
       /\ UNCHANGED matchVars
    \/ (\E outfile \in OutFiles : DumpChangelog(outfile)) /\ UNCHANGED matchVars
    \/ NextRun /\ UNCHANGED matchVars

Spec == Init /\ [][Next]_vars

\* ------------------------------------------------------------------------
\* matches on its own: the arguments are drawn, then the function is called
\* ------------------------------------------------------------------------
PatternLists == {NoneList} \cup SeqUpTo(Patterns, MaxPats)

bool(b) == IF b THEN "True" ELSE "False"

InitMatches ==
    /\ args = [srcf |-> <<>>, start_tag |-> NoneStr, end_tag |-> NoneStr,
               match |-> NoneList, exclude |-> NoneList, restrict |-> NoneList,
               clean |-> FALSE]
    /\ fs = <<>>
    /\ broken = {}
    /\ run = 1
    /\ InitRun
    /\ m_s \in Subjects
    /\ m_match \in PatternLists
    /\ m_excl \in PatternLists
    /\ m_ret = "unset"

CallMatches ==
    /\ m_ret = "unset"
    /\ m_ret' = bool(matches(m_s, m_match, m_excl))
    /\ UNCHANGED <<m_s, m_match, m_excl>>

NextMatches == CallMatches /\ UNCHANGED mainVars

SpecMatches == InitMatches /\ [][NextMatches]_vars

\* ------------------------------------------------------------------------
\* Notions the properties are stated in
\* ------------------------------------------------------------------------
\* exactly one of --start-tag and --end-tag is given
ExactlyOneTag == (args.start_tag = NoneStr) # (args.end_tag = NoneStr)

\* the directory of the clones, and the target path of a repository name
WorkdirPath == abspath(PWD, WORKDIR)
TargetPath(name) == abspath(PWD, WORKDIR \o name)

\* the call that ran last was clone_or_fetch / scrape_commits
LastWasSync == trace # <<>> /\ trace[1].op = "clone_or_fetch"
LastWasScrape == trace # <<>> /\ trace[1].op = "scrape_commits"

\* the git command of the call that ran last
LastGit == trace[Len(trace)]

\* the operations of the call that ran last, without the entry event
LastOps == [k \in 1..(Len(trace) - 1) |-> trace[k + 1].op]

\* the elements of an optional list
Items(l) == IF l = NoneList THEN {} ELSE {l[k] : k \in 1..Len(l)}

\* message k of printed reports a failed git log
IsLogFailure(k) == printed[k].cmd = "git log"

\* message k of printed is the last thing the run did: it ended the run
Aborted(k) == k = Len(printed) /\ pc = "exited" /\ exit_status # 0

\* C1: when exactly one of the start and end references is given, the run is
\* rejected before any synchronization work: no clone_or_fetch call, no
\* directory creation and no git command happens for any repository.
C1_RejectedBeforeSync ==
    ExactlyOneTag => /\ touched \subseteq {WorkdirPath}
                     /\ ~LastWasSync

\* C2: a failed git invocation of clone_or_fetch, by exit code or by timeout,
\* aborts the run with the synchronization-failure status, reports the output
\* of the command, and leaves the path of the repository unset.
C2_SyncFailureAborts ==
    (LastWasSync /\ LastGit.res # "ok") =>
        /\ pc = "exited"
        /\ exit_status = SYNC_FAILED
        /\ printed # <<>>
        /\ printed[Len(printed)] =
               Message("failed", LastGit.op, LastGit.path, "output")
        /\ repo_objs[idx].path = NoneStr
        /\ idx \notin scraped

\* C3: a repository without path has no commits and was never scraped,
\* scrape_commits is only called on a repository whose path is set, and a
\* repository whose synchronization failed is never synced or scraped.
C3_ForwardOnly ==
    /\ \A i \in 1..Len(repo_objs) :
           repo_objs[i].path = NoneStr =>
               repo_objs[i].commits = <<>> /\ i \notin scraped
    /\ \A k \in 1..Len(trace) :
           trace[k].op = "scrape_commits" => trace[k].path # NoneStr
    /\ \A i \in failed : i \notin scraped /\ repo_objs[i].path = NoneStr
    /\ \A i \in scraped : i <= idx /\ repo_objs[i].path # NoneStr

\* a repository was synced and scraped, another one failed to synchronize
C3_Witness ==
    /\ pc = "exited"
    /\ scraped = {1}
    /\ failed = {2}
    /\ repo_objs[1].commits # <<>>
    /\ repo_objs[2].path = NoneStr

\* C4: matches returns true exactly when every include pattern is found in
\* the line and no exclude pattern is; both lists may be empty or None.
C4_MatchesIff ==
    m_ret \in {"True", "False"} =>
        ((m_ret = "True") <=>
            /\ \A p \in Items(m_match) : Search(p, m_s)
            /\ \A p \in Items(m_excl) : ~Search(p, m_s))

\* every include pattern is found, and an exclude pattern forces False
C4_Witness ==
    /\ m_ret = "False"
    /\ m_match = <<PAT_FIX, PAT_I>>
    /\ \A p \in Items(m_match) : Search(p, m_s)
    /\ \E p \in Items(m_excl) : Search(p, m_s)

\* C5: a failed git log is handled by one policy: a non-zero exit and a
\* timeout both abort the run or both let it continue, and both are reported.
C5_OneScrapePolicy ==
    LET F == {k \in 1..Len(printed) : IsLogFailure(k)}
    IN  /\ (\A k \in F : Aborted(k)) \/ (\A k \in F : ~Aborted(k))
        /\ (LastWasScrape /\ LastGit.op = "git log" /\ LastGit.res # "ok") =>
               (printed # <<>> /\ IsLogFailure(Len(printed)))

C7_RestrictedUntouched ==
    Truthy(args.restrict) =>
        \A k \in 1..Len(args.srcf) :
            LET url == Strip(args.srcf[k])
                name == repo_name(url)
            IN  (url # <<>> /\ name \notin Items(args.restrict)) =>
                    /\ \A i \in 1..Len(repo_objs) : repo_objs[i].name # name
                    /\ TargetPath(name) \notin touched
                    /\ \A i \in 1..Len(trace) : trace[i].path # TargetPath(name)
                    /\ \A i \in 1..Len(out) : out[i].repo.text # name

\* p is kept and q left out: p was processed, nothing is at q's path
C7_Witness ==
    /\ args.restrict = <<NAME_P>>
    /\ args.srcf = <<URL_Q, URL_P>>
    /\ ~args.clean
    /\ pc = "exited"
    /\ exit_status = 0
    /\ out # <<>>
    /\ Kind(fs, TargetPath(NAME_Q)) = "absent"
    /\ Kind(fs, TargetPath(NAME_P)) = "dir"

\* the subject of each log line of the model
SubjectOf(line) ==
    CASE line = LOG_FIX -> <<"F", "i", "x">>
      [] line = LOG_WIP -> <<"w", "i", "p">>
      [] OTHER -> <<>>

\* the line is to be kept under the patterns of the command line
Kept(line) ==
    /\ SubjectOf(line) # <<>>
    /\ \A p \in Items(args.match) : Search(p, SubjectOf(line))
    /\ \A p \in Items(args.exclude) : ~Search(p, SubjectOf(line))

\* number of commits stored for the repositories before position i
RECURSIVE Offset(_)
Offset(i) == IF i = 1 THEN 0 ELSE Offset(i - 1) + Len(repo_objs[i - 1].commits)

\* C8: a run that succeeds emits one line per stored commit, grouped by
\* repository in input order and in stored order within a repository, and the
\* commits stored by a scrape are the kept lines of the log in log order.
C8_ChangelogOrder ==
    /\ (pc = "exited" /\ exit_status = 0) =>
           /\ Len(out) = Offset(Len(repo_objs) + 1)
           /\ \A i \in 1..Len(repo_objs) :
                  \A k \in 1..Len(repo_objs[i].commits) :
                      /\ out[Offset(i) + k].repo.text = repo_objs[i].name
                      /\ out[Offset(i) + k].text = repo_objs[i].commits[k]
    /\ (LastWasScrape /\ LastGit.op = "git log" /\ LastGit.res = "ok") =>
           LET kept == SelectSeq(LastGit.lines, Kept)
           IN  repo_objs[idx - 1].commits =
                   [k \in 1..Len(kept) |-> SubjectOf(kept[k])]

\* two repositories, two commits each, emitted in input order
C8_Witness ==
    /\ pc = "exited"
    /\ exit_status = 0
    /\ Len(repo_objs) = 2
    /\ repo_objs[1].name # repo_objs[2].name
    /\ repo_objs[1].commits = <<SubjectOf(LOG_FIX), SubjectOf(LOG_WIP)>>
    /\ repo_objs[2].commits = <<SubjectOf(LOG_WIP), SubjectOf(LOG_FIX)>>
    /\ Len(out) = 4

\* a scrape dropped lines of the log: one without subject, one excluded
C8_WitnessFiltered ==
    /\ LastWasScrape
    /\ args.match = NoneList
    /\ args.exclude = <<PAT_WIP>>
    /\ LastGit.lines = <<LOG_FIX, LOG_BARE, LOG_WIP>>
    /\ repo_objs[idx - 1].commits = <<SubjectOf(LOG_FIX)>>

\* C9: the directory made for a clone that failed is still there in the next
\* run; without --clean that run fetches into it, never clones, and aborts
\* with the synchronization failure instead of reaching Synced.
C9_BrokenCloneFailsLoudly ==
    (run > 1 /\ ~args.clean /\ LastWasSync /\ trace[1].path \in broken
         /\ trace[1].res = "dir") =>
        /\ LastOps = <<"git fetch">>
        /\ pc = "exited"
        /\ exit_status = SYNC_FAILED
        /\ repo_objs[idx].path = NoneStr

\* C10: scrape_commits leaves the current directory at PWD on every way out,
\* so every clone_or_fetch resolves ._repos/ against the startup directory.
C10_CwdRestored ==
    /\ cwd = PWD
    /\ LastWasSync => StartsWith(LastGit.path, PWD \o <<"/">> \o WORKDIR)

\* a git log failed, the loop went on and synchronized the next repository
C10_Witness ==
    /\ LastWasSync
    /\ idx = 2
    /\ scraped = {1}
    /\ printed # <<>>
    /\ printed[1] = Message("failed", "git log", repo_objs[1].path, "output")
    /\ LastGit.res = "ok"

====
